---- MODULE Spec2Model ----
(***************************************************************************)
(* Frame-level model of the compute-shader render node of                  *)
(* bevy_playground_2.  Two revisions of the node exist in the repository:  *)
(* src/main.rs (view uniform with dynamic offset, fail-soft bind group     *)
(* queueing) and src/compute.rs (own uniform buffer, indexing bind group   *)
(* queueing).  The variable rev selects which revision a behaviour runs.   *)
(*                                                                         *)
(* One frame is the sequence                                               *)
(*   extract -> queue_bind_group -> update -> run -> camera_driver         *)
(* as scheduled by the engine (ExtractSchedule, RenderSet::Queue, render   *)
(* graph update, render graph run, CAMERA_DRIVER after the node's edge).   *)
(***************************************************************************)
EXTENDS Integers, Sequences, FiniteSets, TLC

\* ------------------------------------------------------------------ bounds
\* Number of frames a behaviour runs.
MaxFrames == 5
\* Largest target width/height and group size the grid computation is tried on.
MaxDim == 6
MaxGroup == 3

\* ------------------------------------------------------- program constants
SIZE == <<640, 480>>
COMPUTE_IMG_SIZE == <<640, 480>>
WORKGROUP_SIZE == 8

Revisions == {"main", "compute"}

\* enum MyComputeShaderState
MyComputeShaderState == {"Loading", "Init", "Update"}

\* CachedPipelineState of the engine's pipeline cache, as seen by the node:
\* Queued (compile pending), Ok (compiled), Err (compile failed).
CachedPipelineState == {"Queued", "Ok", "Err"}

\* What the render graph hands to run for the view: the input slot may be
\* missing, the entity on it may have no ViewUniformOffset, or both resolve.
ViewInputs == {"no_slot", "no_offset", "ok"}

\* Option values.
None == {}
Some(x) == {x}
IsSome(o) == o # {}
Unwrap(o) == CHOOSE x \in o : TRUE

VARIABLES
    rev,            \* which revision of the node runs
    pc,             \* next step of the frame, or "halt" after a panic
    frame,          \* number of the current frame (0 before the first)
    main_target,    \* main world: MyComputeShaderRenderTarget handle
    render_target,  \* render world: extracted MyComputeShaderRenderTarget
    state,          \* MyComputeShaderNode.state
    bind_group,     \* render world resource MyComputeShaderBindGroup (Option)
    init_status,    \* pipeline cache state of init_pipeline_id
    update_status,  \* pipeline cache state of update_pipeline_id
    gpu_image,      \* gpu_images.get(render_target) is Some this frame
    view_binding,   \* view_uniforms.uniforms.binding() is Some this frame
    view_in,        \* what run gets for the view this frame
    cmds,           \* commands recorded into the frame's command encoder
    result,         \* what run returned this frame: "none", "Ok", "Err"
    panic,          \* "none", or the place that panicked
    polled_ok,      \* history: pipelines that update has polled as Ok
    ok_streak,      \* history: latest consecutive update steps with both Ok
    init_runs,      \* history: run steps that reached the Init arm
    pipeline,       \* render world resource MyComputeShaderPipeline
    pipeline_cache, \* descriptors queued in the PipelineCache, by id
    ran,            \* render graph nodes that have run this frame
    steps,          \* history: the steps executed in this frame, in order
    seen_ok,        \* history: pipelines the cache reported Ok at an update
    built,          \* history: entries of every bind group ever built
    builds,         \* history: number of bind groups built
    poll_log,       \* history: pipelines polled as Ok, one entry per such update
    twin_state,     \* state of the other revision's node, fed the same polls
    twin_cmds,      \* what the other revision's run records in this frame
    grid_in,        \* input of the grid computation <<W, H, g>>
    grid_out        \* its result, <<>> before it is applied

vars == <<rev, pc, frame, main_target, render_target, state, bind_group,
          init_status, update_status, gpu_image, view_binding, view_in,
          cmds, result, panic, polled_ok, ok_streak, init_runs,
          pipeline, pipeline_cache, ran, steps, seen_ok, built, builds,
          poll_log, twin_state, twin_cmds, grid_in, grid_out>>

nodeVars == <<rev, pc, frame, main_target, render_target, state, bind_group,
              init_status, update_status, gpu_image, view_binding, view_in,
              cmds, result, panic, polled_ok, ok_streak, init_runs,
              pipeline, pipeline_cache, ran, steps, seen_ok, built, builds,
              poll_log, twin_state, twin_cmds>>

gridVars == <<grid_in, grid_out>>

\* --------------------------------------------------------------- commands
\* A command recorded into the frame's command encoder: its name, the
\* pipeline it names ("" when none) and its integer arguments.
Cmd(op, p, a) == [op |-> op, p |-> p, a |-> a]

BeginPass == Cmd("begin_compute_pass", "", <<>>)
EndPass == Cmd("end_compute_pass", "", <<>>)
SetBindGroup(bg) == Cmd("set_bind_group", "", <<bg.frame>>)
SetPipeline(p) == Cmd("set_pipeline", p, <<>>)
DispatchWorkgroups(p, grid) == Cmd("dispatch_workgroups", p, grid)

Dispatches(cs) == SelectSeq(cs, LAMBDA c : c.op = "dispatch_workgroups")

NumDispatches == Len(Dispatches(cmds))

\* Mutant of DispatchGrid: width and height groups exchanged.
M_DispatchGrid_Swapped(w, h, g) == <<h \div g, w \div g, 1>>

\* Thread-group grid of the update dispatch: integer (truncating) division
\* of the target size by the group size, depth 1.
DispatchGrid(w, h, g) == <<w \div g, h \div g, 1>>

\* ------------------------------------------------------------- bind group
\* Mutant of CreateBindGroup: the entry for binding 0 is left out.
M_CreateBindGroup_TextureOnly(f, first) ==
    [frame |-> f,
     entries |-> <<[binding |-> 1, resource |-> "texture_view"]>>]

\* device.create_bind_group: the bound set, stamped with the frame that
\* built it, with its two entries by binding index.
CreateBindGroup(f, first) ==
    [frame |-> f,
     entries |-> <<[binding |-> 0, resource |-> first],
                   [binding |-> 1, resource |-> "texture_view"]>>]

\* Mutant of QueueBindGroup: the entries are pushed onto those of the bind
\* group kept from an earlier frame.
M_QueueBindGroup_Accumulates(old, vb, img, f) ==
    IF vb /\ img
    THEN LET fresh == CreateBindGroup(f, "view_uniforms")
             kept == IF old = None THEN <<>> ELSE Unwrap(old).entries
         IN  [bind_group |-> Some([fresh EXCEPT !.entries = kept \o fresh.entries]),
              panic |-> "none"]
    ELSE [bind_group |-> old, panic |-> "none"]

\* queue_bind_group of src/main.rs: builds and inserts the resource only when
\* both the view uniform binding and the target's GPU image resolve;
\* otherwise it does nothing, and the resource inserted earlier stays.
QueueBindGroup(old, vb, img, f) ==
    IF vb /\ img
    THEN [bind_group |-> Some(CreateBindGroup(f, "view_uniforms")), panic |-> "none"]
    ELSE [bind_group |-> old, panic |-> "none"]

\* queue_bind_group of src/compute.rs: indexes gpu_images, which panics when
\* the target has no GPU image.
ComputeQueueBindGroup(old, img, f) ==
    IF img
    THEN [bind_group |-> Some(CreateBindGroup(f, "compute_uniform")), panic |-> "none"]
    ELSE [bind_group |-> old, panic |-> "index_gpu_images"]

\* ------------------------------------------------------------ node update
\* The pipeline whose state update polls in each node state.
PolledPipeline(s) ==
    CASE s = "Loading" -> {"init"}
      [] s = "Init"    -> {"update"}
      [] s = "Update"  -> {}

\* Mutant of UpdateState: the Init arm never assigns Update.
M_UpdateState_StuckInit(s, i, u) ==
    CASE s = "Loading" -> IF i = "Ok" THEN "Init" ELSE "Loading"
      [] s = "Init"    -> "Init"
      [] s = "Update"  -> "Update"

\* Mutant of UpdateState: a pipeline that reports Err resets the node.
M_UpdateState_Regress(s, i, u) ==
    CASE s = "Loading" -> IF i = "Ok" THEN "Init" ELSE "Loading"
      [] s = "Init"    -> IF u = "Ok" THEN "Update"
                          ELSE IF i = "Err" THEN "Loading" ELSE "Init"
      [] s = "Update"  -> IF u = "Err" THEN "Loading" ELSE "Update"

\* Mutant of UpdateState: Loading is left only once both pipelines are Ok.
M_UpdateState_LoadingNeedsBoth(s, i, u) ==
    CASE s = "Loading" -> IF i = "Ok" /\ u = "Ok" THEN "Init" ELSE "Loading"
      [] s = "Init"    -> IF u = "Ok" THEN "Update" ELSE "Init"
      [] s = "Update"  -> "Update"

\* Mutant of UpdateState: the Loading arm falls through into the Init arm's
\* check in the same update step.
M_UpdateState_FallThrough(s, i, u) ==
    CASE s = "Loading" -> IF i = "Ok"
                          THEN (IF u = "Ok" THEN "Update" ELSE "Init")
                          ELSE "Loading"
      [] s = "Init"    -> IF u = "Ok" THEN "Update" ELSE "Init"
      [] s = "Update"  -> "Update"

\* MyComputeShaderNode::update of src/main.rs: the match on self.state.
UpdateState(s, i, u) ==
    CASE s = "Loading" -> IF i = "Ok" THEN "Init" ELSE "Loading"
      [] s = "Init"    -> IF u = "Ok" THEN "Update" ELSE "Init"
      [] s = "Update"  -> "Update"

\* Mutant of ComputeUpdateState: the two pipeline ids are exchanged in the
\* Loading and Init arms.
M_ComputeUpdateState_IdsExchanged(s, i, u) ==
    CASE s = "Loading" -> IF u = "Ok" THEN "Init" ELSE "Loading"
      [] s = "Init"    -> IF i = "Ok" THEN "Update" ELSE "Init"
      [] s = "Update"  -> "Update"

\* MyComputeShaderNode::update of src/compute.rs.
ComputeUpdateState(s, i, u) ==
    CASE s = "Loading" -> IF i = "Ok" THEN "Init" ELSE "Loading"
      [] s = "Init"    -> IF u = "Ok" THEN "Update" ELSE "Init"
      [] s = "Update"  -> "Update"

\* --------------------------------------------------------------- node run
\* Outcome of a run step: the commands it recorded, what it returned, where
\* it panicked, and the arm of the match on self.state it reached.
Returned(cs, r, arm) == [cmds |-> cs, result |-> r, panic |-> "none", arm |-> arm]
Panicked(cs, where, arm) == [cmds |-> cs, result |-> "none", panic |-> where, arm |-> arm]

\* Mutant of RunMatch: the Init arm falls into the Update arm's dispatch.
M_RunMatch_UpdateInInit(cs, s, u) ==
    CASE s = "Loading" -> Returned(Append(cs, EndPass), "Ok", s)
      [] s \in {"Init", "Update"} ->
            IF u = "Ok"
            THEN Returned(cs \o <<SetPipeline("update"),
                                  DispatchWorkgroups("update",
                                      DispatchGrid(SIZE[1], SIZE[2], WORKGROUP_SIZE)),
                                  EndPass>>, "Ok", s)
            ELSE Panicked(Append(cs, EndPass), "unwrap_none", s)

\* Mutant of RunMatch: the commented-out init dispatch is restored, issued
\* in every frame spent in Init.
M_RunMatch_InitDispatch(cs, s, u) ==
    CASE s = "Loading" -> Returned(Append(cs, EndPass), "Ok", s)
      [] s = "Init"    ->
            Returned(cs \o <<SetPipeline("init"),
                             DispatchWorkgroups("init",
                                 DispatchGrid(SIZE[1], SIZE[2], WORKGROUP_SIZE)),
                             EndPass>>, "Ok", s)
      [] s = "Update"  ->
            IF u = "Ok"
            THEN Returned(cs \o <<SetPipeline("update"),
                                  DispatchWorkgroups("update",
                                      DispatchGrid(SIZE[1], SIZE[2], WORKGROUP_SIZE)),
                                  EndPass>>, "Ok", s)
            ELSE Panicked(Append(cs, EndPass), "unwrap_none", s)

\* Mutant of RunMatch: the Loading arm already dispatches the update pipeline.
M_RunMatch_DispatchInLoading(cs, s, u) ==
    IF u = "Ok"
    THEN Returned(cs \o <<SetPipeline("update"),
                          DispatchWorkgroups("update",
                              DispatchGrid(SIZE[1], SIZE[2], WORKGROUP_SIZE)),
                          EndPass>>, "Ok", s)
    ELSE IF s = "Update" THEN Panicked(Append(cs, EndPass), "unwrap_none", s)
    ELSE Returned(Append(cs, EndPass), "Ok", s)

\* The match on self.state in run of src/main.rs, after the bind group was
\* set: nothing in Loading, nothing in Init (the init dispatch is commented
\* out), and in Update the unwrap of get_compute_pipeline followed by
\* set_pipeline and dispatch_workgroups.  cs is the pass so far.
RunMatch(cs, s, u) ==
    CASE s = "Loading" -> Returned(Append(cs, EndPass), "Ok", s)
      [] s = "Init"    -> Returned(Append(cs, EndPass), "Ok", s)
      [] s = "Update"  ->
            IF u = "Ok"
            THEN Returned(cs \o <<SetPipeline("update"),
                                  DispatchWorkgroups("update",
                                      DispatchGrid(SIZE[1], SIZE[2], WORKGROUP_SIZE)),
                                  EndPass>>, "Ok", s)
            ELSE Panicked(Append(cs, EndPass), "unwrap_none", s)

\* Mutant of Run: a missing input slot is returned as success.
M_Run_SlotErrorSwallowed(s, bg, vin, u) ==
    IF vin = "no_slot" THEN Returned(<<>>, "Ok", "none")
    ELSE IF bg = None THEN Panicked(<<>>, "resource_missing", "none")
    ELSE IF vin = "no_offset" THEN Returned(<<BeginPass, EndPass>>, "Ok", "none")
    ELSE RunMatch(<<BeginPass, SetBindGroup(Unwrap(bg))>>, s, u)

\* Mutant of Run: the early return without a view offset leaves the pass
\* it began open.
M_Run_EarlyReturnPassOpen(s, bg, vin, u) ==
    IF vin = "no_slot" THEN Returned(<<>>, "Err", "none")
    ELSE IF bg = None THEN Panicked(<<>>, "resource_missing", "none")
    ELSE IF vin = "no_offset" THEN Returned(<<BeginPass>>, "Ok", "none")
    ELSE RunMatch(<<BeginPass, SetBindGroup(Unwrap(bg))>>, s, u)

\* MyComputeShaderNode::run of src/main.rs.
Run(s, bg, vin, u) ==
    IF vin = "no_slot" THEN Returned(<<>>, "Err", "none")
    ELSE IF bg = None THEN Panicked(<<>>, "resource_missing", "none")
    ELSE IF vin = "no_offset" THEN Returned(<<BeginPass, EndPass>>, "Ok", "none")
    ELSE RunMatch(<<BeginPass, SetBindGroup(Unwrap(bg))>>, s, u)

\* The match on self.state in run of src/compute.rs.
ComputeRunMatch(cs, s, u) ==
    CASE s = "Loading" -> Returned(Append(cs, EndPass), "Ok", s)
      [] s = "Init"    -> Returned(Append(cs, EndPass), "Ok", s)
      [] s = "Update"  ->
            IF u = "Ok"
            THEN Returned(cs \o <<SetPipeline("update"),
                                  DispatchWorkgroups("update",
                                      DispatchGrid(COMPUTE_IMG_SIZE[1],
                                                   COMPUTE_IMG_SIZE[2],
                                                   WORKGROUP_SIZE)),
                                  EndPass>>, "Ok", s)
            ELSE Panicked(Append(cs, EndPass), "unwrap_none", s)

\* MyComputeShaderNode::run of src/compute.rs: no input slot, no view query.
ComputeRun(s, bg, u) ==
    IF bg = None THEN Panicked(<<>>, "resource_missing", "none")
    ELSE ComputeRunMatch(<<BeginPass, SetBindGroup(Unwrap(bg))>>, s, u)

\* ----------------------------------------------------------- registration
\* The bind group layout of src/main.rs: the view uniform buffer with a
\* dynamic offset at binding 0, the read-write storage texture at binding 1.
BindGroupLayout ==
    <<[binding |-> 0, ty |-> "uniform_buffer", has_dynamic_offset |-> TRUE],
      [binding |-> 1, ty |-> "storage_texture", has_dynamic_offset |-> FALSE]>>

\* The bind group layout of src/compute.rs: an f32 uniform buffer without
\* dynamic offset at binding 0, the storage texture at binding 1.
ComputeBindGroupLayout ==
    <<[binding |-> 0, ty |-> "uniform_buffer", has_dynamic_offset |-> FALSE],
      [binding |-> 1, ty |-> "storage_texture", has_dynamic_offset |-> FALSE]>>

\* ComputePipelineDescriptor handed to queue_compute_pipeline.
ComputePipelineDescriptor(label, layout, shader, entry) ==
    [label |-> label, layout |-> layout, shader |-> shader, entry_point |-> entry]

\* Mutant of FromWorld: the second descriptor is a copy of the first with
\* only its label changed, so "init" is queued twice.
M_FromWorld_InitTwice ==
    LET shader == "shaders/my_compute_shader.wgsl"
        queued == <<ComputePipelineDescriptor("my_compute_pipeline_init",
                        BindGroupLayout, shader, "init"),
                    ComputePipelineDescriptor("my_compute_pipeline_update",
                        BindGroupLayout, shader, "init")>>
    IN  [pipeline |-> [texture_bind_group_layout |-> BindGroupLayout,
                       init_pipeline_id |-> 1,
                       update_pipeline_id |-> 2],
         queued |-> queued]

\* MyComputeShaderPipeline::from_world of src/main.rs: creates the layout,
\* loads the shader and queues the two pipelines; queue_compute_pipeline
\* returns the id (the position in the cache) at once.
FromWorld ==
    LET shader == "shaders/my_compute_shader.wgsl"
        queued == <<ComputePipelineDescriptor("my_compute_pipeline_init",
                        BindGroupLayout, shader, "init"),
                    ComputePipelineDescriptor("my_compute_pipeline_update",
                        BindGroupLayout, shader, "update")>>
    IN  [pipeline |-> [texture_bind_group_layout |-> BindGroupLayout,
                       init_pipeline_id |-> 1,
                       update_pipeline_id |-> 2],
         queued |-> queued]

\* MyComputeShaderPipeline::from_world of src/compute.rs.
ComputeFromWorld ==
    LET shader == "shaders/my_compute_shader.wgsl"
        queued == <<ComputePipelineDescriptor("my_compute_pipeline_init",
                        ComputeBindGroupLayout, shader, "init"),
                    ComputePipelineDescriptor("my_compute_pipeline_update",
                        ComputeBindGroupLayout, shader, "update")>>
    IN  [pipeline |-> [texture_bind_group_layout |-> ComputeBindGroupLayout,
                       init_pipeline_id |-> 1,
                       update_pipeline_id |-> 2],
         queued |-> queued]

\* ------------------------------------------------------------ scheduling
\* Mutant of FrameOrder: queue_bind_group registered in a set that runs
\* after the render graph.
M_FrameOrder_QueueAfterGraph == <<"extract", "update", "run", "queue">>

\* The steps of a frame in the order the plugin's registrations give them:
\* the extract plugin (ExtractSchedule), queue_bind_group in
\* RenderSet::Queue, then the render graph, which updates its nodes and
\* then runs them.
FrameOrder == <<"extract", "queue", "update", "run">>

\* The step that follows step p; after the last one the next frame starts.
StepAfter(p) ==
    LET k == CHOOSE j \in 1..Len(FrameOrder) : FrameOrder[j] = p
    IN  FrameOrder[(k % Len(FrameOrder)) + 1]

MY_COMPUTE_NODE_NAME == "my_compute_node"
CAMERA_DRIVER == "camera_driver"

\* Mutant of NodeEdges: the node is added without its edge.
M_NodeEdges_Missing == {}

\* render_graph.add_node_edge(MY_COMPUTE_NODE_NAME, CAMERA_DRIVER).
NodeEdges == {<<MY_COMPUTE_NODE_NAME, CAMERA_DRIVER>>}

\* The graph runner runs a node once every node with an edge into it has run.
NodeReady(n, done) == \A e \in NodeEdges : e[2] = n => e[1] \in done

\* ------------------------------------------------------------------- Init
\* Mutant of NodeInit: MyComputeShaderNode::new starts the node in Init.
M_NodeInit_StartsInInit ==
    /\ rev \in Revisions
    /\ pc = "extract"
    /\ frame = 0
    /\ main_target = Some("image")
    /\ render_target = None
    /\ state = "Init"
    /\ bind_group = None
    /\ init_status = "Queued"
    /\ update_status = "Queued"
    /\ gpu_image = FALSE
    /\ view_binding = FALSE
    /\ view_in = "ok"
    /\ cmds = <<>>
    /\ result = "none"
    /\ panic = "none"
    /\ polled_ok = {}
    /\ ok_streak = 0
    /\ init_runs = 0
    /\ LET w == IF rev = "main" THEN FromWorld ELSE ComputeFromWorld IN
        /\ pipeline = w.pipeline
        /\ pipeline_cache = w.queued
    /\ ran = {}
    /\ steps = <<>>
    /\ seen_ok = {}
    /\ built = {}
    /\ builds = 0
    /\ poll_log = <<>>
    /\ twin_state = "Init"
    /\ twin_cmds = <<>>

\* After plugin build and setup: the target image exists in the main world,
\* both pipelines are queued, the node is Loading, no bind group was queued.
NodeInit ==
    /\ rev \in Revisions
    /\ pc = "extract"
    /\ frame = 0
    /\ main_target = Some("image")
    /\ render_target = None
    /\ state = "Loading"
    /\ bind_group = None
    /\ init_status = "Queued"
    /\ update_status = "Queued"
    /\ gpu_image = FALSE
    /\ view_binding = FALSE
    /\ view_in = "ok"
    /\ cmds = <<>>
    /\ result = "none"
    /\ panic = "none"
    /\ polled_ok = {}
    /\ ok_streak = 0
    /\ init_runs = 0
    /\ LET w == IF rev = "main" THEN FromWorld ELSE ComputeFromWorld IN
        /\ pipeline = w.pipeline
        /\ pipeline_cache = w.queued
    /\ ran = {}
    /\ steps = <<>>
    /\ seen_ok = {}
    /\ built = {}
    /\ builds = 0
    /\ poll_log = <<>>
    /\ twin_state = "Loading"
    /\ twin_cmds = <<>>

Init ==
    /\ NodeInit
    /\ grid_in = <<SIZE[1], SIZE[2], WORKGROUP_SIZE>>
    /\ grid_out = <<>>

\* ---------------------------------------------------------------- actions
\* Mutant of extract: the handle is moved out of the main world instead of
\* cloned.
M_extract_MovesHandle ==
    /\ pc = "extract"
    /\ frame < MaxFrames
    /\ frame' = frame + 1
    /\ render_target' = main_target
    /\ main_target' = None
    /\ cmds' = <<>>
    /\ result' = "none"
    /\ ran' = {}
    /\ steps' = <<"extract">>
    /\ twin_cmds' = <<>>
    /\ pc' = StepAfter("extract")
    /\ UNCHANGED <<rev, state, bind_group, init_status,
                   update_status, gpu_image, view_binding, view_in, panic,
                   polled_ok, ok_streak, init_runs, pipeline, pipeline_cache,
                   seen_ok, built, builds, poll_log, twin_state, gridVars>>

\* ExtractResourcePlugin<MyComputeShaderRenderTarget>: start of a frame; the
\* handle is cloned into the render world.  The frame's command encoder
\* starts empty.
extract ==
    /\ pc = "extract"
    /\ frame < MaxFrames
    /\ frame' = frame + 1
    /\ render_target' = main_target
    /\ cmds' = <<>>
    /\ result' = "none"
    /\ ran' = {}
    /\ steps' = <<"extract">>
    /\ twin_cmds' = <<>>
    /\ pc' = StepAfter("extract")
    /\ UNCHANGED <<rev, main_target, state, bind_group, init_status,
                   update_status, gpu_image, view_binding, view_in, panic,
                   polled_ok, ok_streak, init_runs, pipeline, pipeline_cache,
                   seen_ok, built, builds, poll_log, twin_state, gridVars>>

\* What a queue_bind_group step with outcome q in frame f leaves behind.
QueueEffect(q, f) ==
    LET made == q.bind_group # None /\ Unwrap(q.bind_group).frame = f IN
    /\ bind_group' = q.bind_group
    /\ panic' = q.panic
    /\ built' = IF made THEN built \cup {Unwrap(q.bind_group).entries} ELSE built
    /\ builds' = IF made THEN builds + 1 ELSE builds
    /\ steps' = Append(steps, "queue")
    /\ pc' = IF q.panic = "none" THEN StepAfter("queue") ELSE "halt"

\* queue_bind_group (src/main.rs), in RenderSet::Queue.
queue_bind_group ==
    /\ pc = "queue"
    /\ rev = "main"
    /\ \E vb \in BOOLEAN, img \in BOOLEAN :
        /\ view_binding' = vb
        /\ gpu_image' = img
        /\ QueueEffect(QueueBindGroup(bind_group, vb, img, frame), frame)
    /\ UNCHANGED <<rev, frame, main_target, render_target, state, init_status,
                   update_status, view_in, cmds, result, polled_ok, ok_streak,
                   init_runs, pipeline, pipeline_cache, ran, seen_ok,
                   poll_log, twin_state, twin_cmds, gridVars>>

\* queue_bind_group (src/compute.rs), in RenderSet::Queue.
compute_queue_bind_group ==
    /\ pc = "queue"
    /\ rev = "compute"
    /\ \E img \in BOOLEAN :
        /\ gpu_image' = img
        /\ QueueEffect(ComputeQueueBindGroup(bind_group, img, frame), frame)
    /\ UNCHANGED <<rev, frame, main_target, render_target, state, init_status,
                   update_status, view_binding, view_in, cmds, result,
                   polled_ok, ok_streak, init_runs, pipeline, pipeline_cache,
                   ran, seen_ok, poll_log, twin_state, twin_cmds, gridVars>>

\* The history kept beside an update step that saw cache states i and u.
UpdateHistory(i, u) ==
    /\ polled_ok' = polled_ok \cup
          {p \in PolledPipeline(state) :
              (p = "init" /\ i = "Ok") \/ (p = "update" /\ u = "Ok")}
    /\ ok_streak' = IF i = "Ok" /\ u = "Ok" THEN ok_streak + 1 ELSE 0
    /\ seen_ok' = seen_ok \cup {p \in {"init", "update"} :
              (p = "init" /\ i = "Ok") \/ (p = "update" /\ u = "Ok")}
    /\ steps' = Append(steps, "update")
    /\ poll_log' = poll_log \o
          SelectSeq(<<"init", "update">>,
                    LAMBDA p : /\ p \in PolledPipeline(state)
                               /\ (p = "init" /\ i = "Ok") \/ (p = "update" /\ u = "Ok"))
    /\ twin_state' = IF rev = "main" THEN ComputeUpdateState(twin_state, i, u)
                     ELSE UpdateState(twin_state, i, u)

\* Mutant of update: the update step also records the init dispatch when it
\* enters Init.
M_update_Dispatches ==
    /\ pc = "update"
    /\ rev = "main"
    /\ \E i \in CachedPipelineState, u \in CachedPipelineState :
        /\ init_status' = i
        /\ update_status' = u
        /\ state' = UpdateState(state, i, u)
        /\ UpdateHistory(i, u)
        /\ cmds' = IF state = "Loading" /\ i = "Ok"
                   THEN cmds \o <<BeginPass, SetPipeline("init"),
                                   DispatchWorkgroups("init",
                                       DispatchGrid(SIZE[1], SIZE[2], WORKGROUP_SIZE)),
                                   EndPass>>
                   ELSE cmds
    /\ pc' = StepAfter("update")
    /\ UNCHANGED <<rev, frame, main_target, render_target, bind_group,
                   gpu_image, view_binding, view_in, result, panic,
                   init_runs, pipeline, pipeline_cache, ran, built, builds,
                   twin_cmds, gridVars>>

\* MyComputeShaderNode::update (src/main.rs).  The pipeline cache has
\* processed its queue since the last frame: both states are whatever the
\* cache reports now.
update ==
    /\ pc = "update"
    /\ rev = "main"
    /\ \E i \in CachedPipelineState, u \in CachedPipelineState :
        /\ init_status' = i
        /\ update_status' = u
        /\ state' = UpdateState(state, i, u)
        /\ UpdateHistory(i, u)
    /\ pc' = StepAfter("update")
    /\ UNCHANGED <<rev, frame, main_target, render_target, bind_group,
                   gpu_image, view_binding, view_in, cmds, result, panic,
                   init_runs, pipeline, pipeline_cache, ran, built, builds,
                   twin_cmds, gridVars>>

\* MyComputeShaderNode::update (src/compute.rs).
compute_update ==
    /\ pc = "update"
    /\ rev = "compute"
    /\ \E i \in CachedPipelineState, u \in CachedPipelineState :
        /\ init_status' = i
        /\ update_status' = u
        /\ state' = ComputeUpdateState(state, i, u)
        /\ UpdateHistory(i, u)
    /\ pc' = StepAfter("update")
    /\ UNCHANGED <<rev, frame, main_target, render_target, bind_group,
                   gpu_image, view_binding, view_in, cmds, result, panic,
                   init_runs, pipeline, pipeline_cache, ran, built, builds,
                   twin_cmds, gridVars>>

\* The run step of the other revision's node in this frame, in its own state
\* and with the same update pipeline state, given a bind group and a
\* resolvable view of its own.
TwinRun ==
    IF rev = "main"
    THEN ComputeRun(twin_state, Some(CreateBindGroup(frame, "compute_uniform")),
                    update_status)
    ELSE Run(twin_state, Some(CreateBindGroup(frame, "view_uniforms")), "ok",
             update_status)

\* What a run step with outcome r leaves behind.  The graph is done with
\* the frame once the camera driver has run too.
RunEffect(r) ==
    /\ cmds' = cmds \o r.cmds
    /\ result' = r.result
    /\ panic' = r.panic
    /\ init_runs' = IF r.arm = "Init" THEN init_runs + 1 ELSE init_runs
    /\ ran' = ran \cup {MY_COMPUTE_NODE_NAME}
    /\ steps' = Append(steps, "run")
    /\ twin_cmds' = TwinRun.cmds
    /\ pc' = IF r.panic # "none" THEN "halt"
             ELSE IF CAMERA_DRIVER \in ran THEN StepAfter("run")
             ELSE "camera"

\* Mutant of run: the run step advances the node from Init to Update itself
\* once it has gone through the Init arm.
M_run_WritesState ==
    /\ pc = "run"
    /\ rev = "main"
    /\ NodeReady(MY_COMPUTE_NODE_NAME, ran)
    /\ \E vin \in ViewInputs :
        LET r == Run(state, bind_group, vin, update_status) IN
        /\ view_in' = vin
        /\ RunEffect(r)
        /\ state' = IF r.arm = "Init" THEN "Update" ELSE state
    /\ UNCHANGED <<rev, frame, main_target, render_target, bind_group,
                   init_status, update_status, gpu_image, view_binding,
                   polled_ok, ok_streak, pipeline, pipeline_cache, seen_ok,
                   built, builds, poll_log, twin_state, gridVars>>

\* MyComputeShaderNode::run (src/main.rs).
run ==
    /\ pc = "run"
    /\ rev = "main"
    /\ NodeReady(MY_COMPUTE_NODE_NAME, ran)
    /\ \E vin \in ViewInputs :
        /\ view_in' = vin
        /\ RunEffect(Run(state, bind_group, vin, update_status))
    /\ UNCHANGED <<rev, frame, main_target, render_target, state, bind_group,
                   init_status, update_status, gpu_image, view_binding,
                   polled_ok, ok_streak, pipeline, pipeline_cache, seen_ok,
                   built, builds, poll_log, twin_state, gridVars>>

\* MyComputeShaderNode::run (src/compute.rs).
compute_run ==
    /\ pc = "run"
    /\ rev = "compute"
    /\ NodeReady(MY_COMPUTE_NODE_NAME, ran)
    /\ RunEffect(ComputeRun(state, bind_group, update_status))
    /\ UNCHANGED <<rev, frame, main_target, render_target, state, bind_group,
                   init_status, update_status, gpu_image, view_binding,
                   view_in, polled_ok, ok_streak, pipeline, pipeline_cache,
                   seen_ok, built, builds, poll_log, twin_state, gridVars>>

\* CAMERA_DRIVER: the node the graph edge orders after my_compute_node; it
\* draws the frame that samples the render target.  It runs in the graph
\* phase of the frame as soon as the nodes it depends on have run.
camera_driver ==
    /\ pc \in {"run", "camera"}
    /\ CAMERA_DRIVER \notin ran
    /\ NodeReady(CAMERA_DRIVER, ran)
    /\ cmds' = Append(cmds, Cmd("camera_driver", "", <<>>))
    /\ ran' = ran \cup {CAMERA_DRIVER}
    /\ pc' = IF MY_COMPUTE_NODE_NAME \in ran THEN StepAfter("run") ELSE pc
    /\ UNCHANGED <<rev, frame, main_target, render_target, state, bind_group,
                   init_status, update_status, gpu_image, view_binding,
                   view_in, result, panic, polled_ok, ok_streak, init_runs,
                   pipeline, pipeline_cache, steps, seen_ok, built, builds,
                   poll_log, twin_state, twin_cmds, gridVars>>

Next ==
    \/ extract
    \/ queue_bind_group
    \/ compute_queue_bind_group
    \/ update
    \/ compute_update
    \/ run
    \/ compute_run
    \/ camera_driver

Spec == Init /\ [][Next]_vars

\* ------------------------------------------------ the grid as a function
\* The grid computation on its own, over all target sizes and group sizes
\* within the bounds (and the program's own 640 x 480 by 8).
GridInit ==
    /\ NodeInit
    /\ \E w \in (1..MaxDim) \cup {SIZE[1]}, h \in (1..MaxDim) \cup {SIZE[2]},
          g \in (1..MaxGroup) \cup {WORKGROUP_SIZE} :
          grid_in = <<w, h, g>>
    /\ grid_out = <<>>

dispatch_grid ==
    /\ grid_out = <<>>
    /\ grid_out' = DispatchGrid(grid_in[1], grid_in[2], grid_in[3])
    /\ UNCHANGED <<nodeVars, grid_in>>

GridNext == dispatch_grid

GridSpec == GridInit /\ [][GridNext]_vars

\* ================================================================= claims
\* The run step of the current frame has acted: it returned, or it panicked.
RunActed ==
    \/ pc = "camera"
    \/ pc = "halt" /\ panic \in {"resource_missing", "unwrap_none"}

\* The run step of the current frame has returned to the graph executor.
RunReturned == pc = "camera"

Rank(s) == CASE s = "Loading" -> 0 [] s = "Init" -> 1 [] s = "Update" -> 2

Ceil(a, b) == (a + b - 1) \div b

\* C1: as long as update has not polled the update pipeline as Ok (so while
\* the node is Loading or Init), the frame's command stream holds no
\* dispatch, in every frame and at every step of it.
C1_NoDispatchBeforeUpdateReady ==
    ("update" \notin polled_ok \/ state # "Update") => NumDispatches = 0

\* C1 witness: a second or later frame whose run step went through the Init
\* arm with the bind group set and the view resolved, and dispatched nothing.
C1_Witness ==
    /\ RunReturned
    /\ frame >= 2
    /\ state = "Init"
    /\ view_in = "ok"
    /\ result = "Ok"
    /\ \E k \in 1..Len(cmds) : cmds[k].op = "set_bind_group"
    /\ NumDispatches = 0

\* C2: after two consecutive update steps that both saw both pipelines Ok
\* the node is in Update, and after one such step it has left Loading,
\* whatever the state was before them.
C2_UpdateWithinTwoPolls ==
    /\ ok_streak >= 1 => state # "Loading"
    /\ ok_streak >= 2 => state = "Update"

\* C2 witness: both pipelines Ok from the first frame on; the node, Loading
\* at that frame, is in Update after the second update step.
C2_Witness ==
    /\ pc = "run"
    /\ frame = 2
    /\ ok_streak = 2
    /\ state = "Update"

\* C3: no step moves the node state to an earlier state under
\* Loading < Init < Update; in particular Update is never left.
C3_Monotone == [][Rank(state') >= Rank(state)]_vars

\* C3 witness: an update step has just run in Update while the update
\* pipeline, polled Ok earlier, reports Queued or Err again.
C3_Witness ==
    /\ pc = "run"
    /\ state = "Update"
    /\ "update" \in polled_ok
    /\ update_status # "Ok"
    /\ init_status # "Ok"

\* C4 (as claimed): in a frame whose target GPU image is unresolvable no
\* bind group is built, nothing panics, and a run step that was given its
\* input slot returns Ok with zero dispatches (stated for src/main.rs).
C4_Original ==
    (rev = "main" /\ frame >= 1 /\ ~gpu_image
        /\ pc \in {"update", "run", "camera", "halt"}) =>
        /\ \A bg \in bind_group : bg.frame # frame
        /\ panic = "none"
        /\ (RunReturned /\ view_in # "no_slot") =>
              (result = "Ok" /\ NumDispatches = 0)

\* C5 (as claimed): the bind group a run step binds was built by
\* queue_bind_group in the same frame.
C5_Original ==
    \A k \in 1..Len(cmds) :
        cmds[k].op = "set_bind_group" => cmds[k].a[1] = frame

\* C6 (as claimed): in Update, a frame whose target GPU image is absent
\* ends with zero dispatches, and no frame holds more than one dispatch.
C6_Original ==
    /\ (RunReturned /\ state = "Update" /\ ~gpu_image) => NumDispatches = 0
    /\ NumDispatches <= 1

\* C7 (as claimed): in Update, with the bind group and the view available,
\* a run step that finds the update pipeline not Ok returns Ok without a
\* dispatch instead of panicking.
C7_Original ==
    (RunActed /\ state = "Update" /\ update_status # "Ok"
        /\ view_in = "ok" /\ bind_group # None) =>
        (RunReturned /\ result = "Ok" /\ NumDispatches = 0)

\* C8 (as claimed): with the input slot missing, run returns Ok to the
\* graph executor.
C8_Original ==
    (RunActed /\ view_in = "no_slot") => (RunReturned /\ result = "Ok")

\* C8 (amended): with the input slot missing, run returns early with an
\* error to the graph executor: it records no command, does not dispatch
\* and does not panic, whether or not a bind group exists.
C8_SlotMissingReturnsErr ==
    (RunActed /\ view_in = "no_slot") =>
        (RunReturned /\ result = "Err" /\ cmds = <<>> /\ panic = "none")

\* C8 witness: the slot is missing in a frame in Update with the update
\* pipeline Ok and no bind group ever queued; run has returned.
C8_Witness ==
    /\ RunReturned
    /\ view_in = "no_slot"
    /\ state = "Update"
    /\ update_status = "Ok"
    /\ bind_group = None

\* C9 (as claimed): the first run step that reaches the Init arm issues
\* exactly one dispatch of the init pipeline over the full grid.
C9_Original ==
    (RunReturned /\ state = "Init" /\ init_runs = 1 /\ view_in = "ok") =>
        /\ NumDispatches = 1
        /\ \A k \in 1..Len(cmds) :
              cmds[k].op = "dispatch_workgroups" =>
                  (cmds[k].p = "init" /\
                   cmds[k].a = <<Ceil(SIZE[1], WORKGROUP_SIZE),
                                 Ceil(SIZE[2], WORKGROUP_SIZE), 1>>)

\* C9 (amended): no command of any frame names the init pipeline: the init
\* dispatch is never issued, however many frames the node stays in Init.
C9_NoInitDispatch ==
    \A k \in 1..Len(cmds) : cmds[k].p # "init"

\* C9 witness: a run step has gone through the Init arm for at least the
\* second time.
C9_Witness ==
    /\ RunReturned
    /\ state = "Init"
    /\ init_runs >= 2
    /\ view_in = "ok"
    /\ result = "Ok"

C11_GridIs80x60 ==
    \A k \in 1..Len(cmds) :
        cmds[k].op = "dispatch_workgroups" => cmds[k].a = <<80, 60, 1>>

\* C11 witness: a frame in Update whose run step has dispatched.
C11_Witness ==
    /\ RunReturned
    /\ state = "Update"
    /\ NumDispatches = 1

\* C12 (as claimed): while the init pipeline has never reported Ok the node
\* is Loading, while the update pipeline has never reported Ok it is not in
\* Update (Init once the init pipeline was polled Ok), and in both cases no
\* dispatch is recorded and no run step panics.
C12_Original ==
    /\ "init" \notin seen_ok => state = "Loading"
    /\ "update" \notin seen_ok =>
          state = (IF "init" \in polled_ok THEN "Init" ELSE "Loading")
    /\ ("init" \notin seen_ok \/ "update" \notin seen_ok) =>
          (NumDispatches = 0 /\ panic \notin {"resource_missing", "unwrap_none"})

\* C13: only the node's update step writes the node state: any step that
\* changes it is taken at the update position of the frame.
C13_OnlyUpdateWritesState == [][state' # state => pc = "update"]_vars

\* C13 witness: the node is in Init, and the run step of a later frame has
\* returned early (no view offset) after extraction and queueing ran.
C13_Witness ==
    /\ RunReturned
    /\ state = "Init"
    /\ init_runs >= 1
    /\ view_in = "no_offset"
    /\ steps = <<"extract", "queue", "update", "run">>

\* C14: the update step leaves the frame's command stream alone, and with it
\* the bind group, the run result and the extracted target.
C14_UpdateIssuesNoCommands ==
    [][pc = "update" =>
          (cmds' = cmds /\ bind_group' = bind_group /\ result' = result
           /\ render_target' = render_target /\ ran' = ran)]_vars

\* C14 witness: an update step has just moved the node (to Init, the init
\* pipeline being Ok) and the command stream is still empty.
C14_Witness ==
    /\ pc = "run"
    /\ ran = {}
    /\ state = "Init"
    /\ init_status = "Ok"
    /\ init_runs = 0
    /\ cmds = <<>>

\* C15 (as claimed): a run step executed in Loading records no command.
C15_Original ==
    (RunActed /\ state = "Loading") => cmds = <<>>

\* C15 (amended): a run step executed in Loading sets no pipeline and
\* dispatches nothing; what it records is at most the compute pass it
\* begins, the bind group it sets and the end of the pass, and when it
\* returns Ok the pass was begun and ended.
C15_LoadingNoPipelineNoDispatch ==
    (RunActed /\ state = "Loading") =>
        /\ \A k \in 1..Len(cmds) :
              cmds[k].op \in {"begin_compute_pass", "set_bind_group",
                              "end_compute_pass"}
        /\ result = "Ok" =>
              (/\ Len(cmds) >= 2
               /\ cmds[1] = BeginPass
               /\ cmds[Len(cmds)] = EndPass)

\* C15 witness: a run step in Loading that began the pass and set the bind
\* group, with the update pipeline already Ok in the cache.
C15_Witness ==
    /\ RunReturned
    /\ state = "Loading"
    /\ update_status = "Ok"
    /\ Len(cmds) = 3
    /\ cmds[2].op = "set_bind_group"

\* queue_bind_group has acted in the current frame.
QueueActed == Len(steps) >= 2 /\ steps[2] = "queue"

\* queue_bind_group has built the bind group in the current frame.
BuiltThisFrame == \E bg \in bind_group : bg.frame = frame

\* Every resource the revision's queue_bind_group references resolves.
Resolvable == gpu_image /\ (rev = "main" => view_binding)

IsPrefix(a, b) == Len(a) <= Len(b) /\ SubSeq(b, 1, Len(a)) = a

\* C16 (as claimed): queue_bind_group builds the bind group exactly when
\* every resource it references resolves, and when one does not it yields
\* nothing without failing.
C16_Original ==
    (frame >= 1 /\ QueueActed) =>
        /\ BuiltThisFrame <=> Resolvable
        /\ panic # "index_gpu_images"

\* C17: every bind group ever built, in whatever frame and node state and
\* after whatever earlier frames, has the same entries.
C17_SameInputsSameBindGroup ==
    /\ Cardinality(built) <= 1
    /\ \A bg \in bind_group : bg.entries \in built

\* C17 witness: the bind group is rebuilt in Update, after it was built
\* before in an earlier state and after a frame that built none.
C17_Witness ==
    /\ pc = "update"
    /\ BuiltThisFrame
    /\ state = "Update"
    /\ builds >= 2
    /\ builds < frame

\* C18: in the command stream of a frame every dispatch comes before the
\* camera driver, and the camera driver does not run before the node has.
C18_DispatchBeforeCameraDriver ==
    /\ \A i \in 1..Len(cmds), j \in 1..Len(cmds) :
          (cmds[i].op = "dispatch_workgroups" /\ cmds[j].op = "camera_driver")
              => i < j
    /\ CAMERA_DRIVER \in ran => MY_COMPUTE_NODE_NAME \in ran

\* C18 witness: a frame with a dispatch whose camera driver has run.
C18_Witness ==
    /\ NumDispatches = 1
    /\ CAMERA_DRIVER \in ran
    /\ cmds[Len(cmds)].op = "camera_driver"

\* C19: the steps executed in a frame are, at every moment, an initial part
\* of extract, queue_bind_group, update, run - in this order, none twice -
\* and a frame that reached the end of its graph run has executed all four.
C19_StepsInOrder ==
    /\ IsPrefix(steps, <<"extract", "queue", "update", "run">>)
    /\ (frame >= 1 /\ pc \in {"camera", "extract"}) =>
          steps = <<"extract", "queue", "update", "run">>

\* C19 witness: the third frame has run its four steps.
C19_Witness ==
    /\ frame = 3
    /\ pc = "extract"
    /\ steps = <<"extract", "queue", "update", "run">>

\* C20: the cache holds exactly the two descriptors queued at registration,
\* entry point "init" under init_pipeline_id and "update" under
\* update_pipeline_id, with one shader and the pipeline's own layout; when
\* registration returns both are still Queued and nothing has failed, and
\* no later step queues another.
C20_TwoCompileRequests ==
    /\ Len(pipeline_cache) = 2
    /\ pipeline.init_pipeline_id # pipeline.update_pipeline_id
    /\ pipeline_cache[pipeline.init_pipeline_id].entry_point = "init"
    /\ pipeline_cache[pipeline.update_pipeline_id].entry_point = "update"
    /\ pipeline_cache[1].shader = pipeline_cache[2].shader
    /\ pipeline_cache[1].layout = pipeline.texture_bind_group_layout
    /\ pipeline_cache[2].layout = pipeline.texture_bind_group_layout
    /\ frame = 0 =>
          (init_status = "Queued" /\ update_status = "Queued" /\ panic = "none")

\* C20 witness: frames have run, the init compile has failed and the update
\* compile has succeeded.
C20_Witness ==
    /\ frame >= 2
    /\ pc = "run"
    /\ init_status = "Err"
    /\ update_status = "Ok"

\* The kind of resource a layout entry type asks for.
ResourceFor(ty) ==
    CASE ty = "uniform_buffer"  -> {"view_uniforms", "compute_uniform"}
      [] ty = "storage_texture" -> {"texture_view"}

\* C21: the layout is the one made at registration - a uniform buffer at
\* binding 0 and a storage texture at binding 1 - in every state and in
\* both queued descriptors, and every bind group built or held has exactly
\* one entry per layout slot, at the slot's index and of the slot's kind.
C21_LayoutFixedEntriesMatch ==
    LET layout == pipeline.texture_bind_group_layout IN
    /\ Len(layout) = 2
    /\ layout[1].binding = 0 /\ layout[1].ty = "uniform_buffer"
    /\ layout[2].binding = 1 /\ layout[2].ty = "storage_texture"
    /\ \A d \in 1..Len(pipeline_cache) : pipeline_cache[d].layout = layout
    /\ \A e \in built \cup {bg.entries : bg \in bind_group} :
          /\ Len(e) = Len(layout)
          /\ \A k \in 1..Len(e) :
                /\ e[k].binding = layout[k].binding
                /\ e[k].resource \in ResourceFor(layout[k].ty)

\* C21 witness: the bind group has been built in each of three frames.
C21_Witness ==
    /\ pc = "run"
    /\ frame >= 3
    /\ builds = frame
    /\ BuiltThisFrame

\* C22: the extraction step copies the main-world handle into the render
\* world and does nothing else: the main world, the node, the bind group,
\* the pipelines and the view's resources stay as they are, whether or not
\* a view exists, nothing panics and the frame goes on to queueing.
C22_ExtractOnlyCopies ==
    [][pc = "extract" =>
          /\ render_target' = main_target
          /\ main_target' = main_target
          /\ panic' = "none"
          /\ pc' = "queue"
          /\ UNCHANGED <<state, bind_group, view_binding, gpu_image, view_in,
                         init_status, update_status, pipeline, pipeline_cache>>
      ]_vars

\* C22 witness: extraction has run in the frame after one in which the view
\* had neither a uniform binding nor a uniform offset.
C22_Witness ==
    /\ pc = "queue"
    /\ frame >= 2
    /\ ~view_binding
    /\ view_in = "no_offset"
    /\ render_target = main_target
    /\ render_target = Some("image")

\* C23: an update step in Loading moves to Init exactly when the init
\* pipeline is Ok and otherwise stays, whatever the update pipeline's state;
\* in Init it moves to Update exactly when the update pipeline is Ok and
\* otherwise stays, whatever the init pipeline's state; in Update it stays.
C23_OnePolledStatusDecides ==
    [][pc = "update" =>
          /\ state = "Loading" =>
                state' = (IF init_status' = "Ok" THEN "Init" ELSE "Loading")
          /\ state = "Init" =>
                state' = (IF update_status' = "Ok" THEN "Update" ELSE "Init")
          /\ state = "Update" => state' = "Update"
      ]_vars

\* C23 witness: the node is still Loading after an update step that found
\* the update pipeline Ok and the init pipeline failed.
C23_Witness ==
    /\ pc = "run"
    /\ state = "Loading"
    /\ init_status = "Err"
    /\ update_status = "Ok"

\* The compute passes of a command stream are closed: every begin is
\* followed by an end before the next begin and before the end of the stream.
RECURSIVE PassesClosed(_, _)
PassesClosed(cs, open) ==
    IF cs = <<>> THEN ~open
    ELSE CASE Head(cs).op = "begin_compute_pass" -> ~open /\ PassesClosed(Tail(cs), TRUE)
           [] Head(cs).op = "end_compute_pass"   -> open /\ PassesClosed(Tail(cs), FALSE)
           [] OTHER                              -> PassesClosed(Tail(cs), open)

\* C24: once the run step has returned, on whichever path, every compute
\* pass it began is ended, and no pass is ended that was not begun.
C24_PassClosedOnEveryExit ==
    RunReturned => PassesClosed(cmds, FALSE)

\* C24 witness: run returned early, after beginning the pass, because the
\* view has no uniform offset, in Update with the update pipeline Ok.
C24_Witness ==
    /\ RunReturned
    /\ view_in = "no_offset"
    /\ state = "Update"
    /\ update_status = "Ok"
    /\ cmds = <<BeginPass, EndPass>>

\* C25: no step advances the node by more than one state; an update step in
\* Loading that finds both pipelines Ok leaves the node in Init; and no
\* command stream of the first frame holds a dispatch.
C25_OneStepPerUpdate ==
    [][/\ Rank(state') <= Rank(state) + 1
       /\ (pc = "update" /\ state = "Loading"
              /\ init_status' = "Ok" /\ update_status' = "Ok") => state' = "Init"
       /\ frame' <= 1 => Len(Dispatches(cmds')) = 0
      ]_vars

\* C25 witness: both pipelines were Ok at the first update step; the first
\* frame's run step, with bind group and view, went through Init silently.
C25_Witness ==
    /\ RunReturned
    /\ frame = 1
    /\ ok_streak = 1
    /\ state = "Init"
    /\ view_in = "ok"
    /\ BuiltThisFrame
    /\ NumDispatches = 0

\* C26: outside Loading the first pipeline ever polled Ok is the init
\* pipeline, and in Update the update pipeline was polled Ok in a later
\* update step than the init pipeline.
C26_StateImpliesPollHistory ==
    /\ state # "Loading" => (Len(poll_log) >= 1 /\ poll_log[1] = "init")
    /\ state = "Update" =>
          \E a \in 1..Len(poll_log), b \in 1..Len(poll_log) :
              a < b /\ poll_log[a] = "init" /\ poll_log[b] = "update"

\* C26 witness: the node is in Update in a late frame in which the cache
\* reports neither pipeline Ok any more.
C26_Witness ==
    /\ pc = "run"
    /\ frame >= 4
    /\ state = "Update"
    /\ poll_log = <<"init", "update">>
    /\ init_status = "Queued"
    /\ update_status = "Queued"

\* C27 (as claimed): whenever the view has no uniform offset the run step
\* returns Ok, having set no bind group and dispatched nothing.
C27_Original ==
    (RunActed /\ view_in = "no_offset") =>
        /\ RunReturned
        /\ result = "Ok"
        /\ \A k \in 1..Len(cmds) : cmds[k].op # "set_bind_group"
        /\ NumDispatches = 0

\* C28: fed the same poll results from Loading, the node of the other
\* revision is in the same state at every step, and in a frame whose run
\* step had a bind group and a resolvable view the two revisions record the
\* same dispatches.
C28_RevisionsAgree ==
    /\ twin_state = state
    /\ (Len(steps) = 4 /\ bind_group # None /\ view_in = "ok") =>
          Dispatches(twin_cmds) = Dispatches(cmds)

\* C28 witness: a run step of src/compute.rs has dispatched in Update, and
\* so has that of src/main.rs in the same frame.
C28_Witness ==
    /\ rev = "compute"
    /\ RunReturned
    /\ frame >= 3
    /\ state = "Update"
    /\ NumDispatches = 1
    /\ Len(Dispatches(twin_cmds)) = 1

====
